---- MODULE Spec2Model ----
(***************************************************************************)
(* Dining philosophers of dinPhil.go (listed in dinPhil/README.md).        *)
(*                                                                         *)
(* Each philosopher is a goroutine in an infinite loop                     *)
(*     think; room <- tok; <-forks[low]; <-forks[high]; eat;               *)
(*     forks[high] <- tok; forks[low] <- tok; <-room                       *)
(* Every fork is a channel of capacity 1 holding one token when free, the  *)
(* room is a channel of capacity n-1.  A channel is modelled by the number *)
(* of tokens it buffers: a send is enabled while the buffer is not full, a *)
(* receive while it is not empty.                                          *)
(*                                                                         *)
(* The repository's other programs (barriers, rendezvous, atomic counter,  *)
(* game of life) have their own variables and their own specifications;    *)
(* in the specification of one program the variables of the others stay at *)
(* their idle value.                                                       *)
(***************************************************************************)
EXTENDS Integers, Naturals, Sequences, FiniteSets, TLC

VARIABLES
    n,        \* number of philosophers and of forks (main: n := 5)
    variant,  \* which deadlock-avoidance mechanisms are in force
    forks,    \* forks[f]: tokens buffered in channel forks[f]
    room,     \* tokens buffered in channel room
    pc,       \* pc[id]: the statement philosopher id executes next
    acq,      \* acq[id]: forks philosopher id holds, in acquisition order
    printed,  \* printed[id]: the last line philosopher id printed, and the
              \* number of lines it has printed so far, modulo 2
    running,  \* FALSE once main has received the stop signal and returned
    \* one-shot barrier (barrier(2).go and barrierstruct.go)
    osBarrier, \* the barrier struct: total, count, the mutex
    osProc,    \* osProc[g]: position and locals of goroutine g
    osWg,      \* the counter of main's WaitGroup
    osMain,    \* main's position: "wait" in wg.Wait(), then "exit"
    \* reusable barrier (barrier2.go)
    rbBarrier, \* the ReusableBarrier struct: max, arrived, generation
    rbProc,    \* rbProc[g]: position and locals of goroutine g
    rbWg,      \* the counter of main's WaitGroup
    rbMain,    \* main's position
    \* rendezvous (rendezvous.go)
    rvChans,   \* the channels: buffers of aCh and bCh, startB closed or not
    rvProc,    \* rvProc[g]: position of worker g
    rvMain,    \* main: position, printed counter, seenA, seenB
    rvWg,      \* the counter of main's WaitGroup
    \* atomic counter (atomic.go)
    atTotal,   \* total atomic.Int64
    atProc,    \* atProc[g]: position and loop index of goroutine g
    atWg,      \* the counter of the global WaitGroup
    atMain,    \* main: position, loop index, the value it loaded
    \* game of life (life.go)
    lfGrid,    \* g.grid: current generation
    lfBuffer,  \* g.buffer: next generation
    lfCol,     \* lfCol[x]: position and row of the goroutine of column x
    lfWg,      \* the counter of parallelUpdate's WaitGroup
    lfMain     \* the game loop: position, column index, frameCnt, w, h

vars == <<n, variant, forks, room, pc, acq, printed, running>>

osVars == <<osBarrier, osProc, osWg, osMain>>

\* The idle values of the programs that do not run.
PhilIdle ==
    /\ n = 0
    /\ variant = "both"
    /\ forks = << >>
    /\ room = 0
    /\ pc = << >>
    /\ acq = << >>
    /\ printed = << >>
    /\ running = FALSE

OneShotIdle ==
    osBarrier = << >> /\ osProc = << >> /\ osWg = 0 /\ osMain = "exit"

rbVars == <<rbBarrier, rbProc, rbWg, rbMain>>

ReusableIdle ==
    rbBarrier = << >> /\ rbProc = << >> /\ rbWg = 0 /\ rbMain = "exit"

rvVars == <<rvChans, rvProc, rvMain, rvWg>>

RendezvousIdle ==
    rvChans = << >> /\ rvProc = << >> /\ rvMain = << >> /\ rvWg = 0

atVars == <<atTotal, atProc, atWg, atMain>>

AtomicIdle ==
    atTotal = 0 /\ atProc = << >> /\ atWg = 0 /\ atMain = << >>

lfVars == <<lfGrid, lfBuffer, lfCol, lfWg, lfMain>>

LifeIdle ==
    /\ lfGrid = << >>
    /\ lfBuffer = << >>
    /\ lfCol = << >>
    /\ lfWg = 0
    /\ lfMain = << >>

\* The philosophers run alone.
OnlyPhil == UNCHANGED <<osVars, rbVars, rvVars, atVars, lfVars>>

\* The one-shot barrier program runs alone.
OnlyOneShot == UNCHANGED <<vars, rbVars, rvVars, atVars, lfVars>>

\* The reusable barrier program runs alone.
OnlyReusable == UNCHANGED <<vars, osVars, rvVars, atVars, lfVars>>

\* The rendezvous program runs alone.
OnlyRendezvous == UNCHANGED <<vars, osVars, rbVars, atVars, lfVars>>

\* The atomic counter program runs alone.
OnlyAtomic == UNCHANGED <<vars, osVars, rbVars, rvVars, lfVars>>

\* The game of life runs alone.
OnlyLife == UNCHANGED <<vars, osVars, rbVars, rvVars, atVars>>

\* ------------------------------------------------------------------ bounds

MaxN == 5
MaxNFair == 3
MaxWorkers == 3
MaxLaps == 2

\* calls of wait() beyond total on one one-shot barrier
MaxExtra == 1

\* goroutines of the atomic counter (10 in main) and additions of each
\* (1000 in main)
MaxRoutines == 3
MaxAdds == 3

\* width and height of the life board (w = h = 300 in life.go), and the
\* frames the game loop is followed for
MaxW == 4
MaxH == 4
MaxFrames == 10

\* tickEvery = 5: the board is updated every 5 frames
tickEvery == 5

\* --------------------------------------------------------------- constants

\* forks[i] = make(chan struct{}, 1)
ForkCap == 1

\* ----------------------------------------------------------------- helpers

Phils == 0 .. (n - 1)

Left(id) == id

Right(id) == (id + 1) % n

LowNoSwap(id) == Left(id)

HighNoSwap(id) == Right(id)

\* low, high := left, right; if high < low { low, high = high, low }
Low(id) == IF Right(id) < Left(id) THEN Right(id) ELSE Left(id)

High(id) == IF Right(id) < Left(id) THEN Left(id) ELSE Right(id)

RoomCapN == n

\* room := make(chan struct{}, n-1)
RoomCap == n - 1

\* The fork taken first and the fork taken second.  The program takes low
\* then high; the template it replaces takes left then right.
FirstFork(id) == IF variant = "gateOnly" THEN Left(id) ELSE Low(id)

SecondFork(id) == IF variant = "gateOnly" THEN Right(id) ELSE High(id)

\* The capacity of the room; without the waiter every philosopher gets in.
Capacity == IF variant = "orderOnly" THEN n ELSE RoomCap

\* fmt.Println("Phil", id, "was", what): one more line on the output.
Println(p, what) == [last |-> what, count |-> (p.count + 1) % 2]

\* ------------------------------------------------------------------- Init

InitFor(ns, vs) ==
    /\ n \in ns
    /\ variant \in vs
    /\ forks = [f \in 0 .. (n - 1) |-> 1]
    /\ room = 0
    /\ pc = [id \in 0 .. (n - 1) |-> "think"]
    /\ acq = [id \in 0 .. (n - 1) |-> << >>]
    /\ printed = [id \in 0 .. (n - 1) |-> [last |-> "none", count |-> 0]]
    /\ running = TRUE
    /\ OneShotIdle
    /\ ReusableIdle
    /\ RendezvousIdle
    /\ AtomicIdle
    /\ LifeIdle

Init == InitFor(2 .. MaxN, {"both"})

\* ---------------------------------------------------------------- actions

\* think(id): sleep, then print "Phil id was thinking"
Think(id) ==
    /\ running
    /\ pc[id] = "think"
    /\ printed' = [printed EXCEPT ![id] = Println(@, "thinking")]
    /\ pc' = [pc EXCEPT ![id] = "enter"]
    /\ UNCHANGED <<n, variant, forks, room, acq, running>>

\* room <- struct{}{}
Enter(id) ==
    /\ running
    /\ pc[id] = "enter"
    /\ room < Capacity
    /\ room' = room + 1
    /\ pc' = [pc EXCEPT ![id] = "takeLow"]
    /\ UNCHANGED <<n, variant, forks, acq, printed, running>>

TakeLowKeepsToken(id) ==
    /\ running
    /\ pc[id] = "takeLow"
    /\ forks[FirstFork(id)] > 0
    /\ acq' = [acq EXCEPT ![id] = Append(@, FirstFork(id))]
    /\ pc' = [pc EXCEPT ![id] = "takeHigh"]
    /\ UNCHANGED <<n, variant, forks, room, printed, running>>

\* <-forks[low]
TakeLow(id) ==
    /\ running
    /\ pc[id] = "takeLow"
    /\ forks[FirstFork(id)] > 0
    /\ forks' = [forks EXCEPT ![FirstFork(id)] = @ - 1]
    /\ acq' = [acq EXCEPT ![id] = Append(@, FirstFork(id))]
    /\ pc' = [pc EXCEPT ![id] = "takeHigh"]
    /\ UNCHANGED <<n, variant, room, printed, running>>

TakeHighNoWait(id) ==
    /\ running
    /\ pc[id] = "takeHigh"
    /\ forks' = [forks EXCEPT ![SecondFork(id)] = 0]
    /\ acq' = [acq EXCEPT ![id] = Append(@, SecondFork(id))]
    /\ pc' = [pc EXCEPT ![id] = "eat"]
    /\ UNCHANGED <<n, variant, room, printed, running>>

\* <-forks[high]
TakeHigh(id) ==
    /\ running
    /\ pc[id] = "takeHigh"
    /\ forks[SecondFork(id)] > 0
    /\ forks' = [forks EXCEPT ![SecondFork(id)] = @ - 1]
    /\ acq' = [acq EXCEPT ![id] = Append(@, SecondFork(id))]
    /\ pc' = [pc EXCEPT ![id] = "eat"]
    /\ UNCHANGED <<n, variant, room, printed, running>>

EatPrintsThinking(id) ==
    /\ running
    /\ pc[id] = "eat"
    /\ printed' = [printed EXCEPT ![id] = Println(@, "thinking")]
    /\ pc' = [pc EXCEPT ![id] = "putHigh"]
    /\ UNCHANGED <<n, variant, forks, room, acq, running>>

\* eat(id): sleep, then print "Phil id was eating"
Eat(id) ==
    /\ running
    /\ pc[id] = "eat"
    /\ printed' = [printed EXCEPT ![id] = Println(@, "eating")]
    /\ pc' = [pc EXCEPT ![id] = "putHigh"]
    /\ UNCHANGED <<n, variant, forks, room, acq, running>>

PutHighPutsLow(id) ==
    /\ running
    /\ pc[id] = "putHigh"
    /\ forks[FirstFork(id)] < ForkCap
    /\ forks' = [forks EXCEPT ![FirstFork(id)] = @ + 1]
    /\ acq' = [acq EXCEPT ![id] = SelectSeq(@, LAMBDA f : f # FirstFork(id))]
    /\ pc' = [pc EXCEPT ![id] = "putLow"]
    /\ UNCHANGED <<n, variant, room, printed, running>>

\* forks[high] <- struct{}{}
PutHigh(id) ==
    /\ running
    /\ pc[id] = "putHigh"
    /\ forks[SecondFork(id)] < ForkCap
    /\ forks' = [forks EXCEPT ![SecondFork(id)] = @ + 1]
    /\ acq' = [acq EXCEPT ![id] = SelectSeq(@, LAMBDA f : f # SecondFork(id))]
    /\ pc' = [pc EXCEPT ![id] = "putLow"]
    /\ UNCHANGED <<n, variant, room, printed, running>>

PutLowKeepsFork(id) ==
    /\ running
    /\ pc[id] = "putLow"
    /\ pc' = [pc EXCEPT ![id] = "leave"]
    /\ UNCHANGED <<n, variant, forks, room, acq, printed, running>>

\* forks[low] <- struct{}{}
PutLow(id) ==
    /\ running
    /\ pc[id] = "putLow"
    /\ forks[FirstFork(id)] < ForkCap
    /\ forks' = [forks EXCEPT ![FirstFork(id)] = @ + 1]
    /\ acq' = [acq EXCEPT ![id] = SelectSeq(@, LAMBDA f : f # FirstFork(id))]
    /\ pc' = [pc EXCEPT ![id] = "leave"]
    /\ UNCHANGED <<n, variant, room, printed, running>>

LeaveKeepsPermit(id) ==
    /\ running
    /\ pc[id] = "leave"
    /\ room > 0
    /\ pc' = [pc EXCEPT ![id] = "think"]
    /\ UNCHANGED <<n, variant, forks, room, acq, printed, running>>

\* <-room, then the next iteration of the loop
Leave(id) ==
    /\ running
    /\ pc[id] = "leave"
    /\ room > 0
    /\ room' = room - 1
    /\ pc' = [pc EXCEPT ![id] = "think"]
    /\ UNCHANGED <<n, variant, forks, acq, printed, running>>

\* The template the program replaces: left fork then right fork, no waiter.
TemplatePhilosopher(id) ==
    \/ Think(id)
    \/ /\ running
       /\ pc[id] = "enter"
       /\ pc' = [pc EXCEPT ![id] = "takeLow"]
       /\ UNCHANGED <<n, variant, forks, room, acq, printed, running>>
    \/ /\ running
       /\ pc[id] = "takeLow"
       /\ forks[Left(id)] > 0
       /\ forks' = [forks EXCEPT ![Left(id)] = @ - 1]
       /\ acq' = [acq EXCEPT ![id] = Append(@, Left(id))]
       /\ pc' = [pc EXCEPT ![id] = "takeHigh"]
       /\ UNCHANGED <<n, variant, room, printed, running>>
    \/ /\ running
       /\ pc[id] = "takeHigh"
       /\ forks[Right(id)] > 0
       /\ forks' = [forks EXCEPT ![Right(id)] = @ - 1]
       /\ acq' = [acq EXCEPT ![id] = Append(@, Right(id))]
       /\ pc' = [pc EXCEPT ![id] = "eat"]
       /\ UNCHANGED <<n, variant, room, printed, running>>
    \/ Eat(id)

\* One step of philosopher id.
Philosopher(id) ==
    \/ Think(id)
    \/ Enter(id)
    \/ TakeLow(id)
    \/ TakeHigh(id)
    \/ Eat(id)
    \/ PutHigh(id)
    \/ PutLow(id)
    \/ Leave(id)

ShutdownGraceful ==
    /\ running
    /\ running' = FALSE
    /\ forks' = [f \in 0 .. (n - 1) |-> 1]
    /\ room' = 0
    /\ acq' = [id \in 0 .. (n - 1) |-> << >>]
    /\ UNCHANGED <<n, variant, pc, printed>>

\* <-sigCh; fmt.Println("Shutting down..."); main returns and the process
\* exits with every goroutine wherever it is.
Shutdown ==
    /\ running
    /\ running' = FALSE
    /\ UNCHANGED <<n, variant, forks, room, pc, acq, printed>>

Next ==
    \/ \E id \in Phils : Philosopher(id) /\ OnlyPhil
    \/ Shutdown /\ OnlyPhil

Spec == Init /\ [][Next]_vars

\* The program with one of its two mechanisms taken out: "orderOnly" has no
\* waiter (the room admits all n), "gateOnly" takes left then right.
AltInit == InitFor(2 .. MaxN, {"orderOnly", "gateOnly"})

AltSpec == AltInit /\ [][Next]_vars

\* The running program under a scheduler that serves every philosopher: a
\* goroutine blocked on a channel is queued on it and is handed the next
\* token sent, so an operation that is enabled again and again is taken.
FairIds == 0 .. (MaxNFair - 1)

FairInit == InitFor(2 .. MaxNFair, {"both"})

FairNext == \E id \in Phils : Philosopher(id) /\ OnlyPhil

FairSpec ==
    /\ FairInit
    /\ [][FairNext]_vars
    /\ \A id \in FairIds : SF_vars(id < n /\ Philosopher(id))

\* ------------------------------------------------------ derived notions

Min2(a, b) == IF a < b THEN a ELSE b

Max2(a, b) == IF a < b THEN b ELSE a

\* The forks philosopher id holds.
Held(id) == {acq[id][k] : k \in 1 .. Len(acq[id])}

\* The philosophers holding fork f.
Holders(f) == {id \in Phils : f \in Held(id)}

\* The philosophers past enter() and not yet past leave().
Inside == {id \in Phils : pc[id] \notin {"think", "enter"}}

\* The philosophers that can take a step.
Runnable == {id \in Phils : ENABLED Philosopher(id)}

\* Philosopher id has gone through a whole cycle and is thinking again.
Completed(id) == pc[id] = "think" /\ printed[id].last = "eating"

\* ------------------------------------------------------------------ claims

\* C1: mutual exclusion of forks: in every reachable state every fork is
\* held by at most one philosopher.
MutualExclusion == \A f \in 0 .. (n - 1) : Cardinality(Holders(f)) <= 1

\* A philosopher eats with both forks while a neighbour waits for one of them.
MutualExclusionWitness ==
    \E id \in Phils : \E other \in Phils :
        /\ pc[id] = "eat"
        /\ pc[other] = "takeHigh"
        /\ SecondFork(other) \in Held(id)

\* C2: deadlock freedom: while the process runs, for every n in 2..MaxN,
\* some philosopher can take a step.
DeadlockFree == running => Runnable # {}

\* Five philosophers, the room is full with one philosopher kept out, all
\* but one of those inside wait for a held fork: one philosopher can move.
DeadlockFreeWitness ==
    /\ n = 5
    /\ running
    /\ Cardinality(Runnable) = 1
    /\ \E id \in Phils : pc[id] = "enter" /\ room = Capacity
    /\ Cardinality({id \in Phils : pc[id] = "takeHigh"}) = n - 1

\* C3: admission bound: at most n-1 philosophers are past enter() and not
\* yet past leave(), and the room holds one token for each of them.
AdmissionBound ==
    /\ Cardinality(Inside) <= n - 1
    /\ room = Cardinality(Inside)

\* The room is full and the philosopher left out is waiting to enter.
AdmissionBoundWitness ==
    /\ n = 5
    /\ Cardinality(Inside) = n - 1
    /\ \E id \in Phils : pc[id] = "enter"

\* C4: acquisition ordering: the forks a philosopher holds were acquired
\* min(left,right) first and max(left,right) second; a philosopher past both
\* acquires holds both, one past the first holds the minimum only.
AcquisitionOrder ==
    \A id \in Phils :
        LET lo == Min2(Left(id), Right(id))
            hi == Max2(Left(id), Right(id))
        IN  /\ acq[id] \in {<< >>, <<lo>>, <<lo, hi>>}
            /\ pc[id] = "takeHigh" => acq[id] = <<lo>>
            /\ pc[id] \in {"eat", "putHigh"} => acq[id] = <<lo, hi>>

\* The last of five philosophers holds fork 0 then fork 4.
AcquisitionOrderWitness == n = 5 /\ pc[4] = "eat" /\ acq[4] = <<0, 4>>

\* C5: order computation: for every n in 2..MaxN and every id, (low, high)
\* is (min, max) of (left, right); philosopher n-1 is the only one whose low
\* is not its left fork; for n = 5 philosopher 4 has left 4, right 0, low 0,
\* high 4.
OrderComputation ==
    /\ \A id \in Phils :
        /\ Left(id) = id
        /\ Right(id) = (IF id = n - 1 THEN 0 ELSE id + 1)
        /\ Low(id) = Min2(Left(id), Right(id))
        /\ High(id) = Max2(Left(id), Right(id))
        /\ (Low(id) # Left(id)) <=> (id = n - 1)
        /\ id # n - 1 => Low(id) = Left(id) /\ High(id) = Right(id)
    /\ n = 5 => Left(4) = 4 /\ Right(4) = 0 /\ Low(4) = 0 /\ High(4) = 4

\* The last of five philosophers has taken its low fork, fork 0, while its
\* left fork, fork 4, is still free.
OrderComputationWitness ==
    /\ n = 5
    /\ pc[4] = "takeHigh"
    /\ acq[4] = <<Low(4)>>
    /\ forks[Left(4)] = 1

\* C6: per-actor progress under a fair scheduler: every philosopher
\* eventually completes a full cycle, and a philosopher waiting at enter()
\* or at a fork acquire eventually eats, releases and thinks again.
Progress ==
    \A id \in FairIds :
        /\ <>(id < n => Completed(id))
        /\ (id < n /\ pc[id] \in {"enter", "takeLow", "takeHigh"})
               ~> (id < n /\ Completed(id))

\* A philosopher is kept out of the full room, and another is kept waiting
\* for a fork its neighbour eats with, while a third has completed a cycle.
ProgressWitness ==
    /\ n = 3
    /\ \E id \in Phils : pc[id] = "enter" /\ room = Capacity
    /\ \E id \in Phils : pc[id] = "takeHigh" /\ forks[SecondFork(id)] = 0
    /\ \E id \in Phils : printed[id].last = "eating"

\* C7: boundary n = 2: both philosophers compute low = 0 and high = 1, the
\* room has capacity 1, both forks are mutually exclusive and some
\* philosopher can always take a step.
BoundaryTwo ==
    n = 2 =>
        /\ \A id \in Phils : Low(id) = 0 /\ High(id) = 1
        /\ RoomCap = 1
        /\ Capacity = 1
        /\ \A f \in {0, 1} : Cardinality(Holders(f)) <= 1
        /\ running => Runnable # {}

\* Of two philosophers one eats with forks 0 and 1, the other is kept out
\* of the room.
BoundaryTwoWitness ==
    /\ n = 2
    /\ pc[1] = "eat"
    /\ acq[1] = <<0, 1>>
    /\ pc[0] = "enter"
    /\ Runnable = {1}

\* C8: each mechanism suffices on its own: without the waiter but with
\* low-before-high, and with the waiter but with left-then-right, some
\* philosopher can always take a step.
EachMechanismSuffices ==
    /\ variant \in {"orderOnly", "gateOnly"}
    /\ running => Runnable # {}

\* Left-then-right with the waiter: all but one philosopher hold their left
\* fork and wait for their right one, the last is kept out of the room.
EachMechanismSufficesWitness ==
    /\ n = 5
    /\ variant = "gateOnly"
    /\ room = Capacity
    /\ Capacity = n - 1
    /\ \A id \in Phils : FirstFork(id) = Left(id) /\ SecondFork(id) = Right(id)
    /\ \A id \in 1 .. 4 : acq[id] = <<id>> /\ pc[id] = "takeHigh"
    /\ pc[0] = "enter"
    /\ Runnable = {4}

\* Low-before-high without the waiter: all philosophers are in the room,
\* all but the last hold their low fork.
OrderOnlyReached ==
    /\ n = 5
    /\ variant = "orderOnly"
    /\ room = n
    /\ Capacity = n
    /\ \A id \in Phils : FirstFork(id) = Low(id) /\ SecondFork(id) = High(id)
    /\ \A id \in 0 .. 3 : acq[id] = <<id>> /\ pc[id] = "takeHigh"
    /\ pc[4] = "takeLow"
    /\ Runnable = {3}

\* C9: observable event order per philosopher: whenever a philosopher
\* prints, the line differs from its previous one, the first is
\* "thinking", and "eating" is printed holding both forks, none of which the
\* step acquires or releases.
EventOrderStep ==
    \A id \in Phils :
        printed'[id] # printed[id] =>
            /\ printed'[id].last \in {"thinking", "eating"}
            /\ printed'[id].last # printed[id].last
            /\ printed[id].last = "none" => printed'[id].last = "thinking"
            /\ printed'[id].last = "eating" =>
                   /\ acq[id] = <<Low(id), High(id)>>
                   /\ acq'[id] = acq[id]
                   /\ forks' = forks

EventOrder == [][EventOrderStep]_vars

\* A philosopher has printed thinking, eating, thinking while another has
\* printed nothing yet and a third has only printed thinking.
EventOrderWitness ==
    /\ \E id \in Phils :
           /\ printed[id] = [last |-> "thinking", count |-> 1]
           /\ pc[id] = "enter"
           /\ \E other \in Phils : pc[other] = "putHigh" /\ Held(other) # {}
    /\ \E id \in Phils : printed[id].last = "none"
    /\ \E id \in Phils : Completed(id)

\* C10: abrupt shutdown: the stop signal can be taken in every state of
\* the running process; the step that takes it releases no fork and no
\* permit; after it nothing changes and nothing is printed.
ShutdownStep ==
    /\ (running /\ ~running') =>
           /\ forks' = forks
           /\ room' = room
           /\ acq' = acq
           /\ pc' = pc
           /\ printed' = printed
    /\ ~running => UNCHANGED vars

AbruptShutdown ==
    /\ [](running => ENABLED Shutdown)
    /\ [](~running => ~ENABLED Next)
    /\ [][ShutdownStep]_vars

\* The process has stopped with a full room, a philosopher eating, one
\* waiting for a held fork and one kept out of the room.
AbruptShutdownWitness ==
    /\ ~running
    /\ room = Capacity
    /\ \E id \in Phils : pc[id] = "putHigh" /\ Cardinality(Held(id)) = 2
    /\ \E id \in Phils : pc[id] = "takeHigh" /\ forks[SecondFork(id)] = 0
    /\ \E id \in Phils : pc[id] = "enter"

\* C18: the all-hold-one-fork pattern is unreachable: in no reachable state
\* do all n philosophers hold one fork each and wait for their second one.
NoAllHoldOne ==
    ~ \A id \in Phils :
          /\ pc[id] = "takeHigh"
          /\ Len(acq[id]) = 1
          /\ forks[SecondFork(id)] = 0

\* All but one of five philosophers hold their low fork and wait for the
\* high one.
NoAllHoldOneWitness ==
    /\ n = 5
    /\ Cardinality({id \in Phils : pc[id] = "takeHigh" /\ acq[id] = <<Low(id)>>
                                    /\ forks[High(id)] = 0}) = n - 2
    /\ Cardinality({id \in Phils : pc[id] = "takeHigh"}) = n - 1

\* C19: only enter() and the two fork acquires can block: the channel of a
\* fork about to be put down is empty, and the room holds a token whenever
\* a philosopher is about to leave.
ReleaseNeverBlocks ==
    \A id \in Phils :
        /\ pc[id] = "putHigh" => forks[High(id)] = 0
        /\ pc[id] = "putLow" => forks[Low(id)] = 0
        /\ pc[id] = "leave" => room >= 1
        /\ (running /\ pc[id] = "putHigh") => ENABLED PutHigh(id)
        /\ (running /\ pc[id] = "putLow") => ENABLED PutLow(id)
        /\ (running /\ pc[id] = "leave") => ENABLED Leave(id)
        /\ (running /\ ~ENABLED Philosopher(id)) =>
               pc[id] \in {"enter", "takeLow", "takeHigh"}

\* One philosopher is about to put its high fork down, another its low
\* fork, a third is about to leave, and one is blocked.
ReleaseNeverBlocksWitness ==
    /\ running
    /\ \E id \in Phils : pc[id] = "putHigh"
    /\ \E id \in Phils : pc[id] = "putLow"
    /\ \E id \in Phils : pc[id] = "leave"
    /\ \E id \in Phils : ~ENABLED Philosopher(id)

\* C20: release protocol: a philosopher puts down its high fork, then its
\* low fork, then returns its permit; thinking (or waiting to enter) it
\* holds no fork and no permit.
ReleaseStep ==
    \A id \in Phils :
        /\ Len(acq'[id]) < Len(acq[id]) =>
               \/ /\ pc[id] = "putHigh"
                  /\ acq[id] = <<Low(id), High(id)>>
                  /\ acq'[id] = <<Low(id)>>
                  /\ forks'[High(id)] = forks[High(id)] + 1
                  /\ room' = room
               \/ /\ pc[id] = "putLow"
                  /\ acq[id] = <<Low(id)>>
                  /\ acq'[id] = << >>
                  /\ forks'[Low(id)] = forks[Low(id)] + 1
                  /\ room' = room
        /\ (pc[id] = "leave" /\ pc'[id] # "leave") =>
               /\ acq[id] = << >>
               /\ room' = room - 1
               /\ pc'[id] = "think"
        /\ (room' < room /\ pc'[id] # pc[id]) => pc[id] = "leave"

ReleaseRest ==
    /\ \A id \in Phils : pc[id] \in {"think", "enter", "leave"} => acq[id] = << >>
    /\ room = Cardinality({id \in Phils : pc[id] \notin {"think", "enter"}})

ReleaseProtocol == []ReleaseRest /\ [][ReleaseStep]_vars

\* A philosopher that has eaten is thinking again with its two forks back
\* in their channels and no token of its own in the room.
ReleaseProtocolWitness ==
    \E id \in Phils :
        /\ Completed(id)
        /\ forks[Low(id)] = 1
        /\ forks[High(id)] = 1
        /\ room = 0

\* C21: fork token conservation: every fork starts with one token in its
\* channel; in every reachable state the tokens in forks[f] plus the
\* philosophers holding f make 1; a token comes back to forks[f] only by a
\* step of the philosopher that held f.
ConservationRest ==
    \A f \in 0 .. (n - 1) : forks[f] + Cardinality(Holders(f)) = 1

ConservationStep ==
    \A f \in 0 .. (n - 1) :
        forks'[f] > forks[f] =>
            \E id \in Phils :
                /\ Holders(f) = {id}
                /\ pc[id] \in {"putHigh", "putLow"}
                /\ pc'[id] # pc[id]
                /\ \A other \in Phils \ {id} : pc'[other] = pc[other]
                /\ f \notin {acq'[id][k] : k \in 1 .. Len(acq'[id])}

TokenConservation ==
    /\ \A f \in 0 .. (n - 1) : forks[f] = 1 /\ Holders(f) = {}
    /\ []ConservationRest
    /\ [][ConservationStep]_vars

\* Five philosophers: one has put its high fork back and still holds its
\* low fork, while another fork is held by a neighbour.
TokenConservationWitness ==
    /\ n = 5
    /\ \E id \in Phils :
           /\ pc[id] = "putLow"
           /\ forks[High(id)] = 1
           /\ forks[Low(id)] = 0
           /\ Holders(Low(id)) = {id}
    /\ \E other \in Phils : pc[other] = "eat"

\* The philosophers in eat().
Using == {id \in Phils : pc[id] = "eat"}

\* C26: eating requires both forks: a philosopher in eat() holds its left
\* and its right fork; philosophers id and (id+1) mod n are never in eat()
\* together; at most floor(n/2) philosophers are in eat() at once.
EatingNeedsBoth ==
    /\ \A id \in Using : {Left(id), Right(id)} \subseteq Held(id)
    /\ \A id \in Using : (id + 1) % n \notin Using
    /\ Cardinality(Using) <= n \div 2

\* Five philosophers, two of them eating at once.
EatingNeedsBothWitness ==
    /\ n = 5
    /\ Cardinality(Using) = 2
    /\ \E id \in Phils : pc[id] = "takeHigh" /\ High(id) \in Held((id + 1) % n)

\* What philosopher id holds: "permit" for its place in the room, and its
\* forks by their role.
Holdings(id) ==
    LET held == Held(id)
    IN  (IF pc[id] \notin {"think", "enter"} THEN {"permit"} ELSE {})
        \cup (IF Low(id) \in held THEN {"low"} ELSE {})
        \cup (IF High(id) \in held THEN {"high"} ELSE {})

\* C27: nesting of holdings: a philosopher holding a fork holds a room
\* permit, one holding its high fork holds its low fork; the holdings are
\* always {}, {permit}, {permit, low} or {permit, low, high}, and they
\* follow the position in the cycle.
NestedHoldings ==
    \A id \in Phils :
        LET held == Held(id)
            has == Holdings(id)
        IN  /\ held \subseteq {Low(id), High(id)}
            /\ held # {} => "permit" \in has
            /\ "high" \in has => "low" \in has
            /\ \/ has = {}
               \/ has = {"permit"}
               \/ has = {"permit", "low"}
               \/ has = {"permit", "low", "high"}
            /\ pc[id] \in {"think", "enter"} => has = {}
            /\ pc[id] \in {"takeLow", "leave"} => has = {"permit"}
            /\ pc[id] \in {"takeHigh", "putLow"} => has = {"permit", "low"}
            /\ pc[id] \in {"eat", "putHigh"} => has = {"permit", "low", "high"}

\* Five philosophers showing all four holdings at once, one of them
\* releasing.
NestedHoldingsWitness ==
    /\ n = 5
    /\ \E id \in Phils : pc[id] = "putLow" /\ Holdings(id) = {"permit", "low"}
    /\ \E id \in Phils : Holdings(id) = {"permit", "low", "high"}
    /\ \E id \in Phils : Holdings(id) = {"permit"}
    /\ \E id \in Phils : Holdings(id) = {}

\* The program started with any number of philosophers from one on.
DegenerateInit == InitFor(1 .. MaxNFair, {"both"})

DegenerateSpec == DegenerateInit /\ [][Next]_vars

\* C28: degenerate n = 1: the room has capacity 0, the send of enter() has
\* no receiver and never completes; the philosopher prints one thinking
\* line, then waits at enter() for ever, takes no fork and never eats.
SinglePhilosopher ==
    n = 1 =>
        /\ room = 0
        /\ pc[0] \in {"think", "enter"}
        /\ pc[0] = "think" => printed[0] = [last |-> "none", count |-> 0]
        /\ pc[0] = "enter" =>
               /\ printed[0] = [last |-> "thinking", count |-> 1]
               /\ ~ENABLED Philosopher(0)
        /\ Held(0) = {}
        /\ forks[0] = 1

\* The single philosopher has printed its thinking line and is stuck at
\* enter() of a running program.
SinglePhilosopherWitness ==
    /\ n = 1
    /\ RoomCap = 0
    /\ running
    /\ pc[0] = "enter"
    /\ printed[0].last = "thinking"
    /\ ~ENABLED Enter(0)

\* C11: starvation is not excluded.  An adversarial scheduler never runs
\* philosopher Victim at the point where it waits (its first fork acquire;
\* with two philosophers, where the victim at that point would hold the
\* only permit, at enter()) and serves everybody else.
Victim == 0

WaitPoint == IF n = 2 THEN "enter" ELSE "takeLow"

StarveStep(id) == Philosopher(id) /\ ~(id = Victim /\ pc[Victim] = WaitPoint)

StarveInit == InitFor(2 .. MaxNFair, {"both"})

StarveNext == \E id \in Phils : StarveStep(id) /\ OnlyPhil

StarveSpec ==
    /\ StarveInit
    /\ [][StarveNext]_vars
    /\ \A id \in FairIds : SF_vars(id < n /\ StarveStep(id))

\* Every behaviour of that scheduler is a behaviour of the program that
\* never deadlocks, in which the victim waits forever although what it
\* waits for is available again and again, in which the victim's step is
\* disabled again and again (so the behaviour is weakly fair to every
\* philosopher), and in which every other philosopher keeps eating and
\* completing cycles.
Starvation ==
    /\ [][\E id \in Phils : Philosopher(id)]_vars
    /\ [](Runnable # {})
    /\ <>[](pc[Victim] = WaitPoint)
    /\ []<>(pc[Victim] = WaitPoint /\ ENABLED Philosopher(Victim))
    /\ []<>(pc[Victim] = WaitPoint /\ ~ENABLED Philosopher(Victim))
    /\ \A id \in FairIds \ {Victim} :
           /\ []<>(id < n => pc[id] = "eat")
           /\ []<>(id < n => Completed(id))

\* The victim waits for fork 0 while its neighbour, which has completed a
\* cycle before, eats with it again, and the third philosopher has
\* completed a cycle too.
StarvationWitness ==
    /\ n = 3
    /\ pc[Victim] = "takeLow"
    /\ forks[Low(Victim)] = 0
    /\ pc[2] = "eat"
    /\ printed[2] = [last |-> "thinking", count |-> 1]
    /\ Completed(1)

(***************************************************************************)
(* One-shot barrier: barrier(2).go ("sem": the last arriver sends total-1  *)
(* tokens, the others receive) and barrierstruct.go ("theChan": the others *)
(* send, the last arriver receives total-1 times).  The channel is         *)
(* unbuffered: a send and a receive complete together.                     *)
(***************************************************************************)

OsWorkers == DOMAIN osProc

\* main: wg.Add(n); br := newBarrier(n); go doStuff(i, &wg, br) for each i
OneShotInit ==
    /\ PhilIdle
    /\ ReusableIdle
    /\ RendezvousIdle
    /\ AtomicIdle
    /\ LifeIdle
    /\ \E k \in {"sem", "theChan"} : \E t \in 1 .. MaxWorkers :
           /\ osBarrier = [kind |-> k, total |-> t, count |-> 0, locked |-> FALSE]
           /\ osProc = [g \in 0 .. (t - 1) |->
                           [pc |-> "partA", last |-> FALSE, late |-> FALSE, i |-> 0]]
           /\ osWg = t
    /\ osMain = "wait"

\* The channel operation of a goroutine in wait(): the last arriver of
\* barrier(2).go sends and the others receive; in barrierstruct.go the
\* others send and the last arriver receives.
OsChanOp(k, last) ==
    IF k = "sem" THEN (IF last THEN "send" ELSE "recv")
                 ELSE (IF last THEN "recv" ELSE "send")

\* time.Sleep(...); fmt.Println("Part A", id)
OsPartA(g) ==
    /\ osProc[g].pc = "partA"
    /\ osProc' = [osProc EXCEPT ![g].pc = "lock"]
    /\ UNCHANGED <<osBarrier, osWg, osMain>>

\* b.mu.Lock()
OsLock(g) ==
    /\ osProc[g].pc = "lock"
    /\ ~osBarrier.locked
    /\ osBarrier' = [osBarrier EXCEPT !.locked = TRUE]
    /\ osProc' = [osProc EXCEPT ![g].pc = "incr"]
    /\ UNCHANGED <<osWg, osMain>>

OsIncrLastEarly(g) ==
    /\ osProc[g].pc = "incr"
    /\ osBarrier' = [osBarrier EXCEPT !.count = @ + 1]
    /\ osProc' = [osProc EXCEPT ![g].pc = "unlock",
                                ![g].last = (osBarrier.count + 1 = osBarrier.total - 1),
                                ![g].late = (osBarrier.count + 1 > osBarrier.total)]
    /\ UNCHANGED <<osWg, osMain>>

OsIncrResets(g) ==
    /\ osProc[g].pc = "incr"
    /\ osBarrier' = [osBarrier EXCEPT !.count =
                         IF @ + 1 = osBarrier.total THEN 0 ELSE @ + 1]
    /\ osProc' = [osProc EXCEPT ![g].pc = "unlock",
                                ![g].last = (osBarrier.count + 1 = osBarrier.total),
                                ![g].late = (osBarrier.count + 1 > osBarrier.total)]
    /\ UNCHANGED <<osWg, osMain>>

\* b.count++; last := (b.count == b.total); late records that the call
\* came after the total-th
OsIncr(g) ==
    /\ osProc[g].pc = "incr"
    /\ osBarrier' = [osBarrier EXCEPT !.count = @ + 1]
    /\ osProc' = [osProc EXCEPT ![g].pc = "unlock",
                                ![g].last = (osBarrier.count + 1 = osBarrier.total),
                                ![g].late = (osBarrier.count + 1 > osBarrier.total)]
    /\ UNCHANGED <<osWg, osMain>>

\* b.mu.Unlock(); if last { i := 0 ... } else { channel operation }
OsUnlock(g) ==
    /\ osProc[g].pc = "unlock"
    /\ osBarrier' = [osBarrier EXCEPT !.locked = FALSE]
    /\ osProc' = [osProc EXCEPT
                     ![g].pc = IF osProc[g].last THEN "loop"
                               ELSE OsChanOp(osBarrier.kind, FALSE),
                     ![g].i = 0]
    /\ UNCHANGED <<osWg, osMain>>

OsLoopOneMore(g) ==
    /\ osProc[g].pc = "loop"
    /\ osProc' = [osProc EXCEPT
                     ![g].pc = IF osProc[g].i < osBarrier.total
                               THEN OsChanOp(osBarrier.kind, TRUE)
                               ELSE "partB"]
    /\ UNCHANGED <<osBarrier, osWg, osMain>>

\* for ...; i < b.total-1; ... : the loop test of the last arriver
OsLoop(g) ==
    /\ osProc[g].pc = "loop"
    /\ osProc' = [osProc EXCEPT
                     ![g].pc = IF osProc[g].i < osBarrier.total - 1
                               THEN OsChanOp(osBarrier.kind, TRUE)
                               ELSE "partB"]
    /\ UNCHANGED <<osBarrier, osWg, osMain>>

\* Where a goroutine goes on after its channel operation: the last arriver
\* to i++ and the loop test, the others out of wait().
OsAfterChan(p) ==
    IF p.last THEN [p EXCEPT !.pc = "loop", !.i = @ + 1]
              ELSE [p EXCEPT !.pc = "partB"]

\* A send by s and a receive by r on the unbuffered channel.
OsHandshake(s, r) ==
    /\ s # r
    /\ osProc[s].pc = "send"
    /\ osProc[r].pc = "recv"
    /\ osProc' = [osProc EXCEPT ![s] = OsAfterChan(@), ![r] = OsAfterChan(@)]
    /\ UNCHANGED <<osBarrier, osWg, osMain>>

\* fmt.Println("Part B", id)
OsPartB(g) ==
    /\ osProc[g].pc = "partB"
    /\ osProc' = [osProc EXCEPT ![g].pc = "done"]
    /\ UNCHANGED <<osBarrier, osWg, osMain>>

\* defer wg.Done()
OsDone(g) ==
    /\ osProc[g].pc = "done"
    /\ osWg' = osWg - 1
    /\ osProc' = [osProc EXCEPT ![g].pc = "exit"]
    /\ UNCHANGED <<osBarrier, osMain>>

\* wg.Wait() in main returns
OsMainWait ==
    /\ osMain = "wait"
    /\ osWg = 0
    /\ osMain' = "exit"
    /\ UNCHANGED <<osBarrier, osProc, osWg>>

OsWorker(g) ==
    \/ OsPartA(g)
    \/ OsLock(g)
    \/ OsIncr(g)
    \/ OsUnlock(g)
    \/ OsLoop(g)
    \/ OsPartB(g)
    \/ OsDone(g)

OneShotNext ==
    \/ \E g \in OsWorkers : OsWorker(g) /\ OnlyOneShot
    \/ \E s \in OsWorkers : \E r \in OsWorkers : OsHandshake(s, r) /\ OnlyOneShot
    \/ OsMainWait /\ OnlyOneShot

OneShotSpec == OneShotInit /\ [][OneShotNext]_osVars

\* The program under a scheduler that runs every goroutine that stays
\* runnable and completes a channel operation that stays possible.
OsFairIds == 0 .. (MaxWorkers - 1)

OneShotFairSpec ==
    /\ OneShotInit
    /\ [][OneShotNext]_osVars
    /\ \A g \in OsFairIds : WF_osVars(g \in OsWorkers /\ OsWorker(g))
    /\ WF_osVars(\E s \in OsWorkers : \E r \in OsWorkers : OsHandshake(s, r))
    /\ WF_osVars(OsMainWait)

\* One barrier instance on which more goroutines than total call wait(),
\* each once; main stays in wg.Wait().
OneShotReuseInit ==
    /\ PhilIdle
    /\ ReusableIdle
    /\ RendezvousIdle
    /\ AtomicIdle
    /\ LifeIdle
    /\ \E k \in {"sem", "theChan"} : \E t \in 1 .. MaxWorkers :
       \E e \in 1 .. MaxExtra :
           /\ osBarrier = [kind |-> k, total |-> t, count |-> 0, locked |-> FALSE]
           /\ osProc = [g \in 0 .. (t + e - 1) |->
                           [pc |-> "partA", last |-> FALSE, late |-> FALSE, i |-> 0]]
           /\ osWg = t + e
    /\ osMain = "wait"

OneShotReuseNext ==
    \/ \E g \in OsWorkers : OsWorker(g) /\ OnlyOneShot
    \/ \E s \in OsWorkers : \E r \in OsWorkers : OsHandshake(s, r) /\ OnlyOneShot

OneShotReuseSpec == OneShotReuseInit /\ [][OneShotReuseNext]_osVars

\* Goroutine g has called wait() (it has printed Part A).
OsCalled(g) == osProc[g].pc # "partA"

\* Goroutine g has returned from wait() (it prints Part B next or has).
OsReturned(g) == osProc[g].pc \in {"partB", "done", "exit"}

\* C12: one-shot barrier of barrier(2).go: no goroutine returns from wait()
\* before all n goroutines have called wait().
OneShotBarrier ==
    osBarrier.kind = "sem" =>
        \A g \in OsWorkers : OsReturned(g) => \A h \in OsWorkers : OsCalled(h)

\* Of three goroutines one has printed Part B and exited while another
\* still waits for its token from the last arriver.
OneShotBarrierWitness ==
    /\ osBarrier.kind = "sem"
    /\ osBarrier.total = 3
    /\ \E g \in OsWorkers : osProc[g].pc = "exit"
    /\ \E g \in OsWorkers : osProc[g].pc = "recv"
    /\ \E g \in OsWorkers : osProc[g].pc = "send" /\ osProc[g].i = 1

\* The goroutines that found count == total.
OsLast == {g \in OsWorkers : osProc[g].last}

\* A step in which a goroutine that is not the last arriver completes its
\* channel operation: it is its only one (it leaves wait() with it), and
\* its partner is the last arriver, whose loop counts it.
OsWaiterStep ==
    \A g \in OsWorkers :
        (~osProc[g].last /\ osProc[g].pc \in {"send", "recv"}
            /\ osProc'[g].pc # osProc[g].pc) =>
            /\ osProc'[g].pc = "partB"
            /\ \E l \in OsLast :
                   /\ osProc[l].pc \in {"send", "recv"}
                   /\ osProc'[l].pc = "loop"
                   /\ osProc'[l].i = osProc[l].i + 1
                   /\ \A h \in OsWorkers \ {g, l} : osProc'[h] = osProc[h]

\* main has returned from wg.Wait(): every goroutine has left wait() and
\* exited, one of them was the last arriver and completed total-1 channel
\* operations, nobody waits on the channel.
OsAllOut ==
    /\ osWg = 0
    /\ \A g \in OsWorkers : osProc[g].pc = "exit"
    /\ osBarrier.count = osBarrier.total
    /\ Cardinality(OsLast) = 1
    /\ \A l \in OsLast : osProc[l].i = osBarrier.total - 1

\* C23: one-shot barrier termination, both variants: under fair scheduling
\* every goroutine returns from wait(), the last arriver completes exactly
\* total-1 channel operations and every other goroutine exactly one, with
\* the last arriver; no goroutine is left blocked on the channel and
\* wg.Wait() in main returns.
OneShotTermination ==
    /\ \A g \in OsFairIds : <>(g \in OsWorkers => OsReturned(g))
    /\ <>(osMain = "exit")
    /\ [](osMain = "exit" => OsAllOut)
    /\ [][OsWaiterStep]_osVars

\* Three goroutines on the barrier of barrierstruct.go have all exited and
\* main has returned from wg.Wait().
OneShotTerminationWitness ==
    /\ osBarrier.kind = "theChan"
    /\ osBarrier.total = 3
    /\ osMain = "exit"
    /\ OsAllOut

\* C22: barrier of barrierstruct.go (the waiters send, the last arriver
\* receives): no goroutine returns from wait() before all threadCount
\* goroutines have called wait(); a waiter returns only once count has
\* reached total.
MutexChanBarrier ==
    osBarrier.kind = "theChan" =>
        \A g \in OsWorkers :
            OsReturned(g) =>
                /\ \A h \in OsWorkers : OsCalled(h)
                /\ osBarrier.count = osBarrier.total

\* Of three goroutines one waiter has been received, printed Part B and
\* exited, while the other waiter still offers its send to the last arriver.
MutexChanBarrierWitness ==
    /\ osBarrier.kind = "theChan"
    /\ osBarrier.total = 3
    /\ \E g \in OsWorkers : osProc[g].pc = "exit" /\ ~osProc[g].last
    /\ \E g \in OsWorkers : osProc[g].pc = "send"
    /\ \E g \in OsWorkers : osProc[g].pc = "recv" /\ osProc[g].i = 1

\* The calls that have incremented count.
OsCounted == {g \in OsWorkers : osProc[g].pc \notin {"partA", "lock", "incr"}}

\* The calls that took the waiting branch and have returned.
OsWaitersOut == {g \in OsWorkers : ~osProc[g].last /\ OsReturned(g)}

\* The statement as claimed: a call after the total-th never returns.
LateCallsBlock ==
    \A g \in OsWorkers : osProc[g].late => ~OsReturned(g)

NotReusableRest ==
    /\ osBarrier.count = Cardinality(OsCounted)
    /\ Cardinality(OsLast) <= 1
    /\ osBarrier.count >= osBarrier.total => Cardinality(OsLast) = 1
    /\ \A g \in OsWorkers :
           /\ osProc[g].late => ~osProc[g].last
           /\ osProc[g].pc = "loop" => osProc[g].last
    /\ Cardinality(OsWaitersOut) <= osBarrier.total - 1
    /\ (\E l \in OsLast : OsReturned(l)) =>
           /\ Cardinality(OsWaitersOut) = osBarrier.total - 1
           /\ ~ENABLED (\E s \in OsWorkers : \E r \in OsWorkers : OsHandshake(s, r))

\* C29: the one-shot barrier is not reusable: count is never reset and
\* counts the calls, so exactly one call, the total-th, takes the releasing
\* branch; at most total-1 calls of the waiting branch ever return, and
\* once the releasing call has returned no call waiting on the channel, or
\* reaching it later, ever returns.
NotReusable ==
    /\ []NotReusableRest
    /\ [][osBarrier'.count >= osBarrier.count]_osVars

\* Total is 3 and four goroutines call: the call after the third took a
\* handshake and returned, the releasing call has returned, and a call
\* that came before the third is left on the channel.
NotReusableWitness ==
    /\ osBarrier.total = 3
    /\ \E g \in OsWorkers : osProc[g].late /\ OsReturned(g)
    /\ \E l \in OsLast : OsReturned(l)
    /\ \E g \in OsWorkers :
           ~osProc[g].late /\ ~osProc[g].last /\ osProc[g].pc \in {"send", "recv"}

(***************************************************************************)
(* Reusable barrier: barrier2.go.  arrived and generation are atomics, the *)
(* channel is unbuffered.  main runs two rounds of max goroutines, each    *)
(* calling Wait() once, the second round started after wg.Wait().          *)
(***************************************************************************)

RbProcs == DOMAIN rbProc

\* A goroutine about to run doStuff, calling Wait() laps times in a row.
RbFresh(laps) ==
    [pc |-> "partA", newArrived |-> 0, i |-> 0, laps |-> laps,
     entered |-> 0, returned |-> 0]

\* A goroutine of the second round, which main has not started yet.
RbUnborn == [RbFresh(1) EXCEPT !.pc = "unborn"]

\* The round of main a goroutine belongs to: ids 0..max-1 are started
\* first, the others after the first wg.Wait().
RbRound(g) == IF g < rbBarrier.max THEN 1 ELSE 2

\* barrier := NewReusableBarrier(totalRoutines); wg.Add(totalRoutines);
\* go doStuff(i, barrier, &wg) for each i
ReusableInit ==
    /\ PhilIdle
    /\ OneShotIdle
    /\ RendezvousIdle
    /\ AtomicIdle
    /\ LifeIdle
    /\ \E m \in 1 .. MaxWorkers :
           /\ rbBarrier = [max |-> m, arrived |-> 0, generation |-> 0]
           /\ rbProc = [g \in 0 .. (2 * m - 1) |->
                           IF g < m THEN RbFresh(1) ELSE RbUnborn]
           /\ rbWg = m
    /\ rbMain = "wait1"

\* time.Sleep(time.Second); fmt.Println("Part A", goNum); barrier.Wait()
RbPartA(g) ==
    /\ rbProc[g].pc = "partA"
    /\ rbProc' = [rbProc EXCEPT ![g].pc = "add", ![g].entered = @ + 1]
    /\ UNCHANGED <<rbBarrier, rbWg, rbMain>>

\* newArrived := atomic.AddInt32(&b.arrived, 1)
RbAdd(g) ==
    /\ rbProc[g].pc = "add"
    /\ rbBarrier' = [rbBarrier EXCEPT !.arrived = @ + 1]
    /\ rbProc' = [rbProc EXCEPT ![g].pc = "load",
                                ![g].newArrived = rbBarrier.arrived + 1]
    /\ UNCHANGED <<rbWg, rbMain>>

\* atomic.LoadInt32(&b.generation) (the value is dropped);
\* if newArrived == b.max
RbLoad(g) ==
    /\ rbProc[g].pc = "load"
    /\ rbProc' = [rbProc EXCEPT
                     ![g].pc = IF rbProc[g].newArrived = rbBarrier.max
                               THEN "store" ELSE "recv"]
    /\ UNCHANGED <<rbBarrier, rbWg, rbMain>>

RbStoreSkipped(g) ==
    /\ rbProc[g].pc = "store"
    /\ rbProc' = [rbProc EXCEPT ![g].pc = "gen"]
    /\ UNCHANGED <<rbBarrier, rbWg, rbMain>>

\* atomic.StoreInt32(&b.arrived, 0)
RbStore(g) ==
    /\ rbProc[g].pc = "store"
    /\ rbBarrier' = [rbBarrier EXCEPT !.arrived = 0]
    /\ rbProc' = [rbProc EXCEPT ![g].pc = "gen"]
    /\ UNCHANGED <<rbWg, rbMain>>

\* atomic.AddInt32(&b.generation, 1); i := int32(0)
RbGen(g) ==
    /\ rbProc[g].pc = "gen"
    /\ rbBarrier' = [rbBarrier EXCEPT !.generation = @ + 1]
    /\ rbProc' = [rbProc EXCEPT ![g].pc = "loop", ![g].i = 0]
    /\ UNCHANGED <<rbWg, rbMain>>

\* for ...; i < b.max-1; ... : the loop test; after the loop Wait() returns
RbLoop(g) ==
    /\ rbProc[g].pc = "loop"
    /\ rbProc' = [rbProc EXCEPT ![g] =
                     IF @.i < rbBarrier.max - 1
                     THEN [@ EXCEPT !.pc = "send"]
                     ELSE [@ EXCEPT !.pc = "partB", !.returned = @ + 1]]
    /\ UNCHANGED <<rbBarrier, rbWg, rbMain>>

\* b.waitChan <- true by s meets <-b.waitChan by r
RbHandshake(s, r) ==
    /\ s # r
    /\ rbProc[s].pc = "send"
    /\ rbProc[r].pc = "recv"
    /\ rbProc' = [rbProc EXCEPT
                     ![s] = [@ EXCEPT !.pc = "loop", !.i = @ + 1],
                     ![r] = [@ EXCEPT !.pc = "partB", !.returned = @ + 1]]
    /\ UNCHANGED <<rbBarrier, rbWg, rbMain>>

\* fmt.Println("Part B", goNum); a goroutine with more laps calls Wait()
\* again
RbPartB(g) ==
    /\ rbProc[g].pc = "partB"
    /\ rbProc' = [rbProc EXCEPT ![g] =
                     IF @.laps > 1
                     THEN [@ EXCEPT !.pc = "partA", !.laps = @ - 1]
                     ELSE [@ EXCEPT !.pc = "done"]]
    /\ UNCHANGED <<rbBarrier, rbWg, rbMain>>

\* defer wg.Done()
RbDone(g) ==
    /\ rbProc[g].pc = "done"
    /\ rbWg' = rbWg - 1
    /\ rbProc' = [rbProc EXCEPT ![g].pc = "exit"]
    /\ UNCHANGED <<rbBarrier, rbMain>>

\* wg.Wait() of the first round returns; wg.Add(totalRoutines);
\* go doStuff(i+10, barrier, &wg) for each i
RbMainSecondRound ==
    /\ rbMain = "wait1"
    /\ rbWg = 0
    /\ rbWg' = rbBarrier.max
    /\ rbProc' = [g \in RbProcs |->
                     IF rbProc[g].pc = "unborn"
                     THEN [rbProc[g] EXCEPT !.pc = "partA"] ELSE rbProc[g]]
    /\ rbMain' = "wait2"
    /\ UNCHANGED rbBarrier

\* wg.Wait() of the second round returns
RbMainExit ==
    /\ rbMain = "wait2"
    /\ rbWg = 0
    /\ rbMain' = "exit"
    /\ UNCHANGED <<rbBarrier, rbProc, rbWg>>

RbWorker(g) ==
    \/ RbPartA(g)
    \/ RbAdd(g)
    \/ RbLoad(g)
    \/ RbStore(g)
    \/ RbGen(g)
    \/ RbLoop(g)
    \/ RbPartB(g)
    \/ RbDone(g)

ReusableNext ==
    \/ \E g \in RbProcs : RbWorker(g) /\ OnlyReusable
    \/ \E s \in RbProcs : \E r \in RbProcs : RbHandshake(s, r) /\ OnlyReusable
    \/ RbMainSecondRound /\ OnlyReusable
    \/ RbMainExit /\ OnlyReusable

ReusableSpec == ReusableInit /\ [][ReusableNext]_rbVars

\* Goroutine g has called Wait() (it has printed Part A).
RbCalled(g) == rbProc[g].entered >= 1

\* Goroutine g has returned from Wait() (it prints Part B next or has).
RbReturned(g) == rbProc[g].returned >= 1

\* C13: the rounds of main: in each round no goroutine returns from Wait()
\* before all max goroutines of that round have called Wait(); the program
\* never gets stuck before main has passed both wg.Wait(), and then every
\* goroutine of both rounds has returned.
TwoRounds ==
    /\ \A g \in RbProcs : RbReturned(g) =>
           \A h \in RbProcs : RbRound(h) = RbRound(g) => RbCalled(h)
    /\ rbMain # "exit" => ENABLED ReusableNext
    /\ rbMain = "exit" => \A g \in RbProcs : rbProc[g].pc = "exit"

\* Second round of three goroutines: one has returned from Wait() while
\* another still waits for its signal.
TwoRoundsWitness ==
    /\ rbBarrier.max = 3
    /\ rbMain = "wait2"
    /\ rbBarrier.generation = 2
    /\ \E g \in RbProcs : RbRound(g) = 2 /\ rbProc[g].pc = "exit"
    /\ \E g \in RbProcs : RbRound(g) = 2 /\ rbProc[g].pc = "recv"

\* The goroutines of round k.
RbOfRound(k) == {g \in RbProcs : RbRound(g) = k}

\* The callers of round k whose increment gave max: they take or have
\* taken the releasing branch.
RbReleasers(k) ==
    {g \in RbOfRound(k) : rbProc[g].newArrived = rbBarrier.max}

\* All max Wait() calls of round k have returned.
RbRoundDone(k) == \A g \in RbOfRound(k) : RbReturned(g)

\* No goroutine of round k has incremented arrived yet.
RbRoundNotBegun(k) ==
    \A g \in RbOfRound(k) : rbProc[g].pc \in {"unborn", "partA", "add"}

\* C25: bookkeeping of ReusableBarrier in main's two rounds: once round k
\* has completed, arrived is 0 and generation is k; in a round exactly one
\* caller, the one whose increment gives max, takes the releasing branch
\* and sends max-1 signals; 0 <= arrived <= max always.
Bookkeeping ==
    /\ rbBarrier.arrived >= 0
    /\ rbBarrier.arrived <= rbBarrier.max
    /\ RbRoundDone(1) /\ RbRoundNotBegun(2) =>
           rbBarrier.arrived = 0 /\ rbBarrier.generation = 1
    /\ RbRoundDone(1) /\ RbRoundDone(2) =>
           rbBarrier.arrived = 0 /\ rbBarrier.generation = 2
    /\ \A k \in {1, 2} :
           /\ Cardinality(RbReleasers(k)) <= 1
           /\ RbRoundDone(k) =>
                  /\ Cardinality(RbReleasers(k)) = 1
                  /\ \A g \in RbReleasers(k) : rbProc[g].i = rbBarrier.max - 1
    /\ \A g \in RbProcs :
           /\ rbProc[g].pc \in {"store", "gen", "loop", "send"} =>
                  rbProc[g].newArrived = rbBarrier.max
           /\ rbProc[g].pc = "recv" => rbProc[g].newArrived < rbBarrier.max
           /\ rbProc[g].i <= rbBarrier.max - 1

\* Both rounds of three goroutines have completed and main has returned:
\* arrived is 0 and generation is 2.
BookkeepingWitness ==
    /\ rbBarrier.max = 3
    /\ rbMain = "exit"
    /\ RbRoundDone(1) /\ RbRoundDone(2)
    /\ rbBarrier.generation = 2
    /\ rbBarrier.arrived = 0

\* The same max goroutines call Wait() MaxLaps times in a row on one
\* barrier, with nothing else between the rounds; main waits for them all.
ReuseLoopInit ==
    /\ PhilIdle
    /\ OneShotIdle
    /\ RendezvousIdle
    /\ AtomicIdle
    /\ LifeIdle
    /\ \E m \in 1 .. MaxWorkers :
           /\ rbBarrier = [max |-> m, arrived |-> 0, generation |-> 0]
           /\ rbProc = [g \in 0 .. (m - 1) |-> RbFresh(MaxLaps)]
           /\ rbWg = m
    /\ rbMain = "wait2"

ReuseLoopNext ==
    \/ \E g \in RbProcs : RbWorker(g) /\ OnlyReusable
    \/ \E s \in RbProcs : \E r \in RbProcs : RbHandshake(s, r) /\ OnlyReusable
    \/ RbMainExit /\ OnlyReusable

ReuseLoopSpec == ReuseLoopInit /\ [][ReuseLoopNext]_rbVars

\* C14: ReusableBarrier is a reusable barrier: no goroutine has returned
\* from its k-th Wait() before all max goroutines have entered their k-th
\* Wait(), for every k.
ReusableEveryLap ==
    \A g \in RbProcs : \A h \in RbProcs :
        rbProc[g].returned <= rbProc[h].entered

(***************************************************************************)
(* Rendezvous: rendezvous.go.  Workers report Part A on the buffered       *)
(* channel aCh, wait for main to close startB, then report Part B on the   *)
(* buffered channel bCh; main prints the lines.                            *)
(***************************************************************************)

RvWorkers == DOMAIN rvProc

\* aCh := make(chan int, n*2); bCh := make(chan int, n*2)
RvCap == 2 * Cardinality(RvWorkers)

\* main up to its first receive: the channels are made, wg.Add(n), the
\* workers are started, seenA is empty, printed := 0
RendezvousInit ==
    /\ PhilIdle
    /\ OneShotIdle
    /\ ReusableIdle
    /\ AtomicIdle
    /\ LifeIdle
    /\ \E m \in 1 .. MaxWorkers :
           /\ rvProc = [g \in 0 .. (m - 1) |-> "sendA"]
           /\ rvWg = m
    /\ rvChans = [aCh |-> << >>, bCh |-> << >>, startB |-> "open"]
    /\ rvMain = [pc |-> "loopA", printed |-> 0, seenA |-> {}, seenB |-> {}]

\* time.Sleep(...); aCh <- id
RvSendA(g) ==
    /\ rvProc[g] = "sendA"
    /\ Len(rvChans.aCh) < RvCap
    /\ rvChans' = [rvChans EXCEPT !.aCh = Append(@, g)]
    /\ rvProc' = [rvProc EXCEPT ![g] = "await"]
    /\ UNCHANGED <<rvMain, rvWg>>

RvAwaitStartNoWait(g) ==
    /\ rvProc[g] = "await"
    /\ rvProc' = [rvProc EXCEPT ![g] = "sendB"]
    /\ UNCHANGED <<rvChans, rvMain, rvWg>>

\* <-startB: a receive on a channel nobody sends on returns once the
\* channel is closed
RvAwaitStart(g) ==
    /\ rvProc[g] = "await"
    /\ rvChans.startB = "closed"
    /\ rvProc' = [rvProc EXCEPT ![g] = "sendB"]
    /\ UNCHANGED <<rvChans, rvMain, rvWg>>

\* bCh <- id
RvSendB(g) ==
    /\ rvProc[g] = "sendB"
    /\ Len(rvChans.bCh) < RvCap
    /\ rvChans' = [rvChans EXCEPT !.bCh = Append(@, g)]
    /\ rvProc' = [rvProc EXCEPT ![g] = "done"]
    /\ UNCHANGED <<rvMain, rvWg>>

\* defer wg.Done()
RvDone(g) ==
    /\ rvProc[g] = "done"
    /\ rvWg' = rvWg - 1
    /\ rvProc' = [rvProc EXCEPT ![g] = "exit"]
    /\ UNCHANGED <<rvChans, rvMain>>

\* printed < n; id := <-aCh; if !seenA[id] { Printf("Part A"); seenA[id] =
\* true; printed++ }
RvMainRecvA ==
    /\ rvMain.pc = "loopA"
    /\ rvMain.printed < Cardinality(RvWorkers)
    /\ rvChans.aCh # << >>
    /\ LET id == Head(rvChans.aCh)
       IN  rvMain' = IF id \notin rvMain.seenA
                     THEN [rvMain EXCEPT !.seenA = @ \cup {id}, !.printed = @ + 1]
                     ELSE rvMain
    /\ rvChans' = [rvChans EXCEPT !.aCh = Tail(@)]
    /\ UNCHANGED <<rvProc, rvWg>>

RvMainCloseForgets ==
    /\ rvMain.pc = "loopA"
    /\ rvMain.printed >= Cardinality(RvWorkers)
    /\ rvMain' = [rvMain EXCEPT !.pc = "loopB", !.printed = 0]
    /\ UNCHANGED <<rvChans, rvProc, rvWg>>

\* the first loop ends: close(startB); seenB is empty, printed := 0
RvMainClose ==
    /\ rvMain.pc = "loopA"
    /\ rvMain.printed >= Cardinality(RvWorkers)
    /\ rvChans' = [rvChans EXCEPT !.startB = "closed"]
    /\ rvMain' = [rvMain EXCEPT !.pc = "loopB", !.printed = 0]
    /\ UNCHANGED <<rvProc, rvWg>>

\* printed < n; id := <-bCh; if !seenB[id] { Printf("Part B"); seenB[id] =
\* true; printed++ }
RvMainRecvB ==
    /\ rvMain.pc = "loopB"
    /\ rvMain.printed < Cardinality(RvWorkers)
    /\ rvChans.bCh # << >>
    /\ LET id == Head(rvChans.bCh)
       IN  rvMain' = IF id \notin rvMain.seenB
                     THEN [rvMain EXCEPT !.seenB = @ \cup {id}, !.printed = @ + 1]
                     ELSE rvMain
    /\ rvChans' = [rvChans EXCEPT !.bCh = Tail(@)]
    /\ UNCHANGED <<rvProc, rvWg>>

\* the second loop ends
RvMainEndB ==
    /\ rvMain.pc = "loopB"
    /\ rvMain.printed >= Cardinality(RvWorkers)
    /\ rvMain' = [rvMain EXCEPT !.pc = "wait"]
    /\ UNCHANGED <<rvChans, rvProc, rvWg>>

\* wg.Wait()
RvMainWait ==
    /\ rvMain.pc = "wait"
    /\ rvWg = 0
    /\ rvMain' = [rvMain EXCEPT !.pc = "exit"]
    /\ UNCHANGED <<rvChans, rvProc, rvWg>>

RvWorker(g) ==
    \/ RvSendA(g)
    \/ RvAwaitStart(g)
    \/ RvSendB(g)
    \/ RvDone(g)

RvMainStep ==
    \/ RvMainRecvA
    \/ RvMainClose
    \/ RvMainRecvB
    \/ RvMainEndB
    \/ RvMainWait

RendezvousNext ==
    \/ \E g \in RvWorkers : RvWorker(g) /\ OnlyRendezvous
    \/ RvMainStep /\ OnlyRendezvous

RendezvousSpec == RendezvousInit /\ [][RendezvousNext]_rvVars

\* The program under a scheduler that runs every goroutine that stays
\* runnable.
RvFairIds == 0 .. (MaxWorkers - 1)

RendezvousFairSpec ==
    /\ RendezvousInit
    /\ [][RendezvousNext]_rvVars
    /\ \A g \in RvFairIds : WF_rvVars(g \in RvWorkers /\ RvWorker(g))
    /\ WF_rvVars(RvMainStep)

\* Worker g has sent its id on bCh.
RvSentB(g) == rvProc[g] \in {"done", "exit"}

\* C15: rendezvous: no "Part B" line is printed before all n "Part A"
\* lines are, and no worker sends on bCh before main has received all n
\* distinct ids on aCh and closed startB.
Rendezvous ==
    /\ rvMain.seenB # {} => rvMain.seenA = RvWorkers
    /\ rvMain.pc = "loopA" => rvMain.seenB = {}
    /\ \A g \in RvWorkers :
           (RvSentB(g) \/ rvProc[g] = "sendB") =>
               /\ rvChans.startB = "closed"
               /\ rvMain.seenA = RvWorkers
    /\ rvChans.bCh # << >> => rvChans.startB = "closed"
    /\ rvChans.startB = "closed" => rvMain.seenA = RvWorkers

\* Three workers: main has printed one Part B line, one worker has not yet
\* seen startB closed, one has sent on bCh and is not printed yet.
RendezvousWitness ==
    /\ Cardinality(RvWorkers) = 3
    /\ Cardinality(rvMain.seenB) = 1
    /\ \E g \in RvWorkers : rvProc[g] = "await"
    /\ Len(rvChans.bCh) = 1

\* The ids waiting in a channel buffer.
RvIds(buf) == {buf[k] : k \in 1 .. Len(buf)}

\* Nothing main can receive is a duplicate: the ids waiting in a channel are
\* distinct and not yet seen.
RvNoDuplicate ==
    /\ Cardinality(RvIds(rvChans.aCh)) = Len(rvChans.aCh)
    /\ RvIds(rvChans.aCh) \cap rvMain.seenA = {}
    /\ Cardinality(RvIds(rvChans.bCh)) = Len(rvChans.bCh)
    /\ RvIds(rvChans.bCh) \cap rvMain.seenB = {}

\* A worker at a send finds room in the buffer.
RvSendsNeverBlock ==
    /\ Len(rvChans.aCh) <= Cardinality(RvWorkers)
    /\ Len(rvChans.bCh) <= Cardinality(RvWorkers)
    /\ \A g \in RvWorkers :
           /\ rvProc[g] = "sendA" => ENABLED RvSendA(g)
           /\ rvProc[g] = "sendB" => ENABLED RvSendB(g)

\* The lines printed so far: one per id seen, counted by printed.
RvLines ==
    /\ rvMain.pc = "loopA" =>
           rvMain.printed = Cardinality(rvMain.seenA) /\ rvMain.seenB = {}
    /\ rvMain.pc \in {"loopB", "wait", "exit"} => rvMain.seenA = RvWorkers
    /\ rvMain.pc = "loopB" => rvMain.printed = Cardinality(rvMain.seenB)
    /\ rvMain.pc \in {"wait", "exit"} =>
           /\ rvMain.seenB = RvWorkers
           /\ rvMain.printed = Cardinality(RvWorkers)
    /\ rvMain.pc = "exit" =>
           /\ rvWg = 0
           /\ \A g \in RvWorkers : rvProc[g] = "exit"
           /\ rvChans.aCh = << >> /\ rvChans.bCh = << >>

\* Every receive of main prints a line for an id not printed in this phase.
RvReceiveStep ==
    /\ rvChans'.aCh # rvChans.aCh /\ Len(rvChans'.aCh) < Len(rvChans.aCh) =>
           /\ Head(rvChans.aCh) \notin rvMain.seenA
           /\ rvMain'.seenA = rvMain.seenA \cup {Head(rvChans.aCh)}
           /\ rvMain'.printed = rvMain.printed + 1
    /\ rvChans'.bCh # rvChans.bCh /\ Len(rvChans'.bCh) < Len(rvChans.bCh) =>
           /\ Head(rvChans.bCh) \notin rvMain.seenB
           /\ rvMain'.seenB = rvMain.seenB \cup {Head(rvChans.bCh)}
           /\ rvMain'.printed = rvMain.printed + 1

\* C24: rendezvous termination and counts: under fair scheduling the
\* program terminates; main prints n Part A lines and n Part B lines, each
\* worker id once per phase; no worker blocks on its send to aCh or bCh;
\* seenA and seenB never reject a message; every worker returns and
\* wg.Wait() returns.
RendezvousTermination ==
    /\ <>(rvMain.pc = "exit")
    /\ [](RvLines /\ RvSendsNeverBlock /\ RvNoDuplicate)
    /\ [][RvReceiveStep]_rvVars

\* Three workers: main has printed three lines of each part and returned
\* from wg.Wait().
RendezvousTerminationWitness ==
    /\ Cardinality(RvWorkers) = 3
    /\ rvMain.pc = "exit"
    /\ rvMain.seenA = RvWorkers
    /\ rvMain.seenB = RvWorkers
    /\ rvWg = 0

(***************************************************************************)
(* Atomic counter: atomic.go.  main starts the goroutines one by one, each *)
(* adds 1 to total n times and calls wg.Done(); main waits and loads.      *)
(***************************************************************************)

AtRoutines == DOMAIN atProc

\* main at the top of its loop: total is 0, no goroutine is started
AtomicInit ==
    /\ PhilIdle
    /\ OneShotIdle
    /\ ReusableIdle
    /\ RendezvousIdle
    /\ LifeIdle
    /\ atTotal = 0
    /\ atWg = 0
    /\ \E r \in 1 .. MaxRoutines : \E a \in 1 .. MaxAdds :
           /\ atProc = [g \in 0 .. (r - 1) |-> [pc |-> "unborn", i |-> 0, n |-> a]]
           /\ atMain = [pc |-> "spawn", i |-> 0, loaded |-> 0]

\* i < n; total.Add(1); i++
AtAdd(g) ==
    /\ atProc[g].pc = "loop"
    /\ atProc[g].i < atProc[g].n
    /\ atTotal' = atTotal + 1
    /\ atProc' = [atProc EXCEPT ![g].i = @ + 1]
    /\ UNCHANGED <<atWg, atMain>>

\* the loop ends; wg.Done(); return true
AtDone(g) ==
    /\ atProc[g].pc = "loop"
    /\ atProc[g].i >= atProc[g].n
    /\ atWg' = atWg - 1
    /\ atProc' = [atProc EXCEPT ![g].pc = "exit"]
    /\ UNCHANGED <<atTotal, atMain>>

\* for i := range 10 { wg.Add(1); Println; go addsAtomic(1000, &total) }
AtMainSpawn ==
    /\ atMain.pc = "spawn"
    /\ atMain.i \in AtRoutines
    /\ atWg' = atWg + 1
    /\ atProc' = [atProc EXCEPT ![atMain.i].pc = "loop"]
    /\ atMain' = [atMain EXCEPT !.i = @ + 1]
    /\ UNCHANGED atTotal

\* the range is exhausted
AtMainEndSpawn ==
    /\ atMain.pc = "spawn"
    /\ atMain.i \notin AtRoutines
    /\ atMain' = [atMain EXCEPT !.pc = "wait"]
    /\ UNCHANGED <<atTotal, atProc, atWg>>

AtMainWaitNoBlock ==
    /\ atMain.pc = "wait"
    /\ atMain' = [atMain EXCEPT !.pc = "load"]
    /\ UNCHANGED <<atTotal, atProc, atWg>>

\* wg.Wait()
AtMainWait ==
    /\ atMain.pc = "wait"
    /\ atWg = 0
    /\ atMain' = [atMain EXCEPT !.pc = "load"]
    /\ UNCHANGED <<atTotal, atProc, atWg>>

\* fmt.Println(total.Load())
AtMainLoad ==
    /\ atMain.pc = "load"
    /\ atMain' = [atMain EXCEPT !.pc = "exit", !.loaded = atTotal]
    /\ UNCHANGED <<atTotal, atProc, atWg>>

addsAtomic(g) ==
    \/ AtAdd(g)
    \/ AtDone(g)

AtMainStep ==
    \/ AtMainSpawn
    \/ AtMainEndSpawn
    \/ AtMainWait
    \/ AtMainLoad

AtomicNext ==
    \/ \E g \in AtRoutines : addsAtomic(g) /\ OnlyAtomic
    \/ AtMainStep /\ OnlyAtomic

AtomicSpec == AtomicInit /\ [][AtomicNext]_atVars

\* The number of additions every goroutine is asked for, summed.
RECURSIVE AtAsked(_)
AtAsked(G) ==
    IF G = {} THEN 0
    ELSE LET g == CHOOSE x \in G : TRUE
         IN  atProc[g].n + AtAsked(G \ {g})

\* C16: atomic counter: wg.Wait() returns only after every goroutine has
\* called wg.Done(), and the value main then loads from total is the number
\* of goroutines times the additions of each: no increment is lost.
AtomicCounter ==
    /\ atMain.pc \in {"load", "exit"} =>
           \A g \in AtRoutines : atProc[g].pc = "exit"
    /\ atMain.pc = "load" => atTotal = AtAsked(AtRoutines)
    /\ atMain.pc = "exit" =>
           /\ atMain.loaded = AtAsked(AtRoutines)
           /\ \A g \in AtRoutines :
                  atMain.loaded = Cardinality(AtRoutines) * atProc[g].n

\* Main has loaded the sum of MaxRoutines goroutines of MaxAdds additions.
AtomicCounterWitness ==
    /\ atMain.pc = "exit"
    /\ Cardinality(AtRoutines) = MaxRoutines
    /\ atMain.loaded = MaxRoutines * MaxAdds

(***************************************************************************)
(* Game of life: life.go.  Update counts frames and every tickEvery-th     *)
(* frame runs parallelUpdate: one goroutine per interior column writes the *)
(* next generation into buffer, then grid and buffer are swapped.          *)
(***************************************************************************)

\* columns and rows of the interior: 1 <= x < w-1, 1 <= y < h-1
LfInnerX == 1 .. (lfMain.w - 2)
LfInnerY == 1 .. (lfMain.h - 2)

\* the game NewArticleStyleGame returns: the interior of grid is seeded at
\* random, the border of grid and all of buffer are zero, frameCnt is 0
LifeInit ==
    /\ PhilIdle
    /\ OneShotIdle
    /\ ReusableIdle
    /\ RendezvousIdle
    /\ AtomicIdle
    /\ \E ww \in 3 .. MaxW : \E hh \in 3 .. MaxH :
           /\ lfMain = [pc |-> "idle", x |-> 0, frameCnt |-> 0, w |-> ww, h |-> hh]
           /\ \E alive \in SUBSET ((1 .. (ww - 2)) \X (1 .. (hh - 2))) :
                  lfGrid = [x \in 0 .. (ww - 1) |-> [y \in 0 .. (hh - 1) |->
                               IF <<x, y>> \in alive THEN 1 ELSE 0]]
           /\ lfBuffer = [x \in 0 .. (ww - 1) |-> [y \in 0 .. (hh - 1) |-> 0]]
           /\ lfCol = [x \in 1 .. (ww - 2) |-> [pc |-> "unborn", y |-> 0]]
    /\ lfWg = 0

\* n: the sum of the eight cells around (x, y), a uint8
LfNeighbours(grid, x, y) ==
    ( grid[x - 1][y - 1] + grid[x - 1][y] + grid[x - 1][y + 1]
    + grid[x][y - 1] + grid[x][y + 1]
    + grid[x + 1][y - 1] + grid[x + 1][y] + grid[x + 1][y + 1] ) % 256

LfRuleB2(cell, nb) ==
    IF cell = 0 /\ nb = 2 THEN 1
    ELSE IF nb < 2 \/ nb > 3 THEN 0
    ELSE cell

\* the value written to buffer[x][y] for a cell with nb live neighbours
LfRule(cell, nb) ==
    IF cell = 0 /\ nb = 3 THEN 1
    ELSE IF nb < 2 \/ nb > 3 THEN 0
    ELSE cell

\* g.frameCnt++; if g.frameCnt%tickEvery == 0, parallelUpdate starts
Update ==
    /\ lfMain.pc = "idle"
    /\ lfMain.frameCnt < MaxFrames
    /\ lfMain' = [lfMain EXCEPT !.frameCnt = @ + 1,
                                !.pc = IF (lfMain.frameCnt + 1) % tickEvery = 0
                                       THEN "spawn" ELSE "idle",
                                !.x = 1]
    /\ UNCHANGED <<lfGrid, lfBuffer, lfCol, lfWg>>

\* x < w-1; wg.Add(1); go func(x)
LfSpawn ==
    /\ lfMain.pc = "spawn"
    /\ lfMain.x < lfMain.w - 1
    /\ lfWg' = lfWg + 1
    /\ lfCol' = [lfCol EXCEPT ![lfMain.x] = [pc |-> "loop", y |-> 1]]
    /\ lfMain' = [lfMain EXCEPT !.x = @ + 1]
    /\ UNCHANGED <<lfGrid, lfBuffer>>

\* the loop over the columns ends
LfEndSpawn ==
    /\ lfMain.pc = "spawn"
    /\ lfMain.x >= lfMain.w - 1
    /\ lfMain' = [lfMain EXCEPT !.pc = "wait"]
    /\ UNCHANGED <<lfGrid, lfBuffer, lfCol, lfWg>>

LfCellRowAbove(x) ==
    /\ lfCol[x].pc = "loop"
    /\ lfCol[x].y < lfMain.h - 1
    /\ LET y == lfCol[x].y
       IN  lfBuffer' = [lfBuffer EXCEPT ![x][y - 1] =
                           LfRule(lfGrid[x][y], LfNeighbours(lfGrid, x, y))]
    /\ lfCol' = [lfCol EXCEPT ![x].y = @ + 1]
    /\ UNCHANGED <<lfGrid, lfWg, lfMain>>

\* y < h-1: count the neighbours of (x, y) in grid, write buffer[x][y]; y++
LfCell(x) ==
    /\ lfCol[x].pc = "loop"
    /\ lfCol[x].y < lfMain.h - 1
    /\ LET y == lfCol[x].y
       IN  lfBuffer' = [lfBuffer EXCEPT ![x][y] =
                           LfRule(lfGrid[x][y], LfNeighbours(lfGrid, x, y))]
    /\ lfCol' = [lfCol EXCEPT ![x].y = @ + 1]
    /\ UNCHANGED <<lfGrid, lfWg, lfMain>>

\* the loop over the rows ends; defer wg.Done()
LfColDone(x) ==
    /\ lfCol[x].pc = "loop"
    /\ lfCol[x].y >= lfMain.h - 1
    /\ lfWg' = lfWg - 1
    /\ lfCol' = [lfCol EXCEPT ![x].pc = "exit"]
    /\ UNCHANGED <<lfGrid, lfBuffer, lfMain>>

LfWaitNoBlock ==
    /\ lfMain.pc = "wait"
    /\ lfMain' = [lfMain EXCEPT !.pc = "swap"]
    /\ UNCHANGED <<lfGrid, lfBuffer, lfCol, lfWg>>

\* wg.Wait()
LfWait ==
    /\ lfMain.pc = "wait"
    /\ lfWg = 0
    /\ lfMain' = [lfMain EXCEPT !.pc = "swap"]
    /\ UNCHANGED <<lfGrid, lfBuffer, lfCol, lfWg>>

\* g.grid, g.buffer = g.buffer, g.grid; parallelUpdate and Update return
LfSwap ==
    /\ lfMain.pc = "swap"
    /\ lfGrid' = lfBuffer
    /\ lfBuffer' = lfGrid
    /\ lfCol' = [x \in DOMAIN lfCol |-> [pc |-> "unborn", y |-> 0]]
    /\ lfMain' = [lfMain EXCEPT !.pc = "idle"]
    /\ UNCHANGED lfWg

LfColumn(x) ==
    \/ LfCell(x)
    \/ LfColDone(x)

parallelUpdate ==
    \/ LfSpawn
    \/ LfEndSpawn
    \/ LfWait
    \/ LfSwap

LifeNext ==
    \/ Update /\ OnlyLife
    \/ parallelUpdate /\ OnlyLife
    \/ \E x \in DOMAIN lfCol : LfColumn(x) /\ OnlyLife

LifeSpec == LifeInit /\ [][LifeNext]_lfVars

\* parallelUpdate has just returned: grid is the new generation and buffer
\* is the grid before the update.
LfUpdated ==
    /\ lfMain.pc = "idle"
    /\ lfMain.frameCnt > 0
    /\ lfMain.frameCnt % tickEvery = 0

\* The number of live cells among the eight around (x, y).
LfLive(grid, x, y) ==
    Cardinality({c \in ((x - 1) .. (x + 1)) \X ((y - 1) .. (y + 1)) :
                    c # <<x, y>> /\ grid[c[1]][c[2]] = 1})

\* The rule computed by one sequential double loop: columns x .. w-2, in
\* each the rows y .. h-2, reading old and writing into buf.
RECURSIVE LfSequential(_, _, _, _)
LfSequential(old, buf, x, y) ==
    IF x >= lfMain.w - 1 THEN buf
    ELSE IF y >= lfMain.h - 1 THEN LfSequential(old, buf, x + 1, 1)
    ELSE LfSequential(old,
                      [buf EXCEPT ![x][y] =
                          IF old[x][y] = 0 /\ LfLive(old, x, y) = 3 THEN 1
                          ELSE IF old[x][y] = 1 /\ LfLive(old, x, y) \in {2, 3}
                               THEN 1
                          ELSE 0],
                      x, y + 1)

LfActive == {x \in DOMAIN lfCol : lfCol[x].pc = "loop"}

\* The cells in which two boards differ.
LfDiff(a, b) ==
    {c \in (0 .. (lfMain.w - 1)) \X (0 .. (lfMain.h - 1)) :
        a[c[1]][c[2]] # b[c[1]][c[2]]}

\* A step of the goroutine of column x leaves grid alone and writes at most
\* the cell of buffer in its own column at its current interior row.
LfOwnColumnStep ==
    \A x \in DOMAIN lfCol :
        (lfCol[x].pc = "loop" /\ lfCol'[x] # lfCol[x]) =>
            /\ lfGrid' = lfGrid
            /\ LfDiff(lfBuffer, lfBuffer') \subseteq {<<x, lfCol[x].y>>}
            /\ lfBuffer' # lfBuffer => lfCol[x].y \in LfInnerY
            /\ \A other \in DOMAIN lfCol \ {x} : lfCol'[other] = lfCol[other]

\* While a column goroutine is started and not finished nobody writes grid,
\* and no column gets a second goroutine.
LfQuietStep ==
    /\ (LfActive # {} \/ lfMain.pc \in {"spawn", "wait"}) => lfGrid' = lfGrid
    /\ \A x \in LfActive : lfCol'[x].pc \in {"loop", "exit"}
    /\ \A x \in DOMAIN lfCol :
           lfCol[x].pc # "loop" /\ lfCol'[x].pc = "loop" =>
               lfCol[x].pc = "unborn" /\ lfMain.pc = "spawn" /\ lfMain.x = x

\* grid and buffer are exchanged only when every column goroutine has run
\* and finished.
LfSwapStep ==
    (lfGrid' # lfGrid \/ (lfMain'.pc = "idle" /\ lfMain.pc # "idle")) =>
        /\ lfMain.pc = "swap"
        /\ lfWg = 0
        /\ \A x \in DOMAIN lfCol : lfCol[x].pc = "exit" /\ lfCol[x].y = lfMain.h - 1
        /\ lfGrid' = lfBuffer
        /\ lfBuffer' = lfGrid

\* Whatever the interleaving, the generation after the update is the one
\* function of the grid before it.
LfSameGeneration ==
    LfUpdated =>
        \A x \in LfInnerX : \A y \in LfInnerY :
            lfGrid[x][y] = LfRule(lfBuffer[x][y], LfNeighbours(lfBuffer, x, y))

\* The WaitGroup counts the column goroutines started and not finished.
LfWgCounts == lfWg = Cardinality(LfActive)

\* C30: race-free parallel update: a column goroutine only reads grid and
\* writes only buffer[x][1..h-2] of its own column, one goroutine per
\* column, so no cell is written by two goroutines and none is read while
\* written; grid and buffer are swapped only after all column goroutines
\* have finished; the new generation is the same for every interleaving.
RaceFree ==
    /\ [][LfOwnColumnStep /\ LfQuietStep /\ LfSwapStep]_lfVars
    /\ []LfWgCounts
    /\ []LfSameGeneration

\* Second update of the widest board: both column goroutines run, one is
\* a row ahead of the other, and main waits for them.
RaceFreeWitness ==
    /\ lfMain.w = MaxW /\ lfMain.h = MaxH
    /\ lfMain.frameCnt = 2 * tickEvery
    /\ lfMain.pc = "wait"
    /\ Cardinality(LfActive) = 2
    /\ \E x \in LfActive : \E z \in LfActive : lfCol[x].y = lfCol[z].y + 1
    /\ lfBuffer # lfGrid

\* The border cells of the board: x = 0, x = w-1, y = 0 or y = h-1.
LfBorder ==
    {c \in (0 .. (lfMain.w - 1)) \X (0 .. (lfMain.h - 1)) :
        c[1] \in {0, lfMain.w - 1} \/ c[2] \in {0, lfMain.h - 1}}

\* C31: dead border: in every state reached from NewArticleStyleGame by
\* Update and parallelUpdate steps, every border cell of grid and of buffer
\* is 0.
DeadBorder ==
    \A c \in LfBorder :
        /\ lfGrid[c[1]][c[2]] = 0
        /\ lfBuffer[c[1]][c[2]] = 0

\* The second update of the widest board has returned, so each of the two
\* arrays has been written once and swapped twice; live cells lie next to
\* the border in both.
DeadBorderWitness ==
    /\ lfMain.w = MaxW /\ lfMain.h = MaxH
    /\ LfUpdated
    /\ lfMain.frameCnt = 2 * tickEvery
    /\ \E x \in LfInnerX : \E y \in LfInnerY : lfGrid[x][y] = 1
    /\ \E x \in LfInnerX : \E y \in LfInnerY : lfBuffer[x][y] = 1
    /\ \A c \in LfBorder : lfGrid[c[1]][c[2]] = 0

====
